---- MODULE Spec2Model ----
(***************************************************************************)
(* Model of koishi-plugin-twitter-fetcher (src/unnamed/part_000, second    *)
(* variant, lines 146-599): the content resolver processTweet and the      *)
(* subscription poller checkAndPushUpdates.                                *)
(*                                                                         *)
(* Strings are sequences of tokens; a message element is a record          *)
(* [tag, txt, idx]; "null" stands for JavaScript null / undefined.         *)
(***************************************************************************)
EXTENDS Integers, Sequences, FiniteSets, TLC

(***************************************************************************)
(* Bounds of the model.                                                    *)
(***************************************************************************)
\* longest media_extended list of a metadata response
MaxMedia == 2
\* number of poll cycles started in one behaviour
MaxCycles == 2
\* most articles on the page discovery inspects
MaxArticles == 3
\* most words in an incoming message
MaxWords == 2
\* most instances made by createLogStepper, and most calls of them
MaxSteppers == 2
MaxLogCalls == 4

Null == "null"

(***************************************************************************)
(* Message elements (koishi h) and the strings the resolver returns.       *)
(***************************************************************************)
TextEl(s) == [tag |-> "text", txt |-> s, idx |-> 0]
ImageEl(name, i) == [tag |-> "image", txt |-> <<name>>, idx |-> i]
VideoEl(name, i) == [tag |-> "video", txt |-> <<name>>, idx |-> i]

\* h.image(screenshotBuffer, 'image/png')
ScreenshotEl == ImageEl("screenshot", 0)

\* Array.prototype.join on an array of strings (token sequences)
RECURSIVE JoinStr(_, _)
JoinStr(parts, sep) ==
  IF parts = <<>> THEN <<>>
  ELSE IF Len(parts) = 1 THEN Head(parts)
  ELSE Head(parts) \o sep \o JoinStr(Tail(parts), sep)

\* Array.prototype.join on a mixed array (string | h): the elements are
\* serialised in order with the separator between neighbours
RECURSIVE JoinEls(_, _)
JoinEls(parts, sep) ==
  IF parts = <<>> THEN <<>>
  ELSE IF Len(parts) = 1 THEN parts
  ELSE <<Head(parts), TextEl(sep)>> \o JoinEls(Tail(parts), sep)

\* [...].filter(Boolean): the empty string is dropped, elements are kept
FilterBoolean(parts) ==
  SelectSeq(parts, LAMBDA e : ~(e.tag = "text" /\ e.txt = <<>>))

\* a plain string returned as the message
PlainMsg(s) == [form |-> "plain", children |-> <<TextEl(s)>>]

\* '未能获取到任何内容.'
NoContentNotice == <<"no content could be fetched.">>
\* `获取推文内容失败: ${error.message}`
FailureNotice(errMessage) == <<"failed to fetch the tweet content: ", errMessage>>

(***************************************************************************)
(* processTweet, step by step.  The collaborators' responses are the       *)
(* record env: shot (getTweetScreenshot), api (http.get of the vxtwitter   *)
(* API), trans (http.get of the translate API) and, per media item, dl     *)
(* (http.file).                                                            *)
(***************************************************************************)
Call(fn, arg) == [fn |-> fn, arg |-> arg]

\* if (options.showLink) textParts.push(tweetUrl)
SeedLink(tweetUrl, options) ==
  IF options.showLink THEN << <<tweetUrl>> >> ELSE <<>>

\* mutant: the catch of the screenshot try adds a broken image
ScreenshotStep_BrokenOnFailure(options, shot) ==
  IF ~options.showScreenshot
    THEN [calls |-> <<>>, el |-> <<>>]
    ELSE [calls |-> <<Call("getTweetScreenshot", 0)>>,
          el |-> IF shot = "ok" THEN <<ScreenshotEl>>
                 ELSE <<ImageEl("broken", 0)>>]

\* mutant: the screenshot is taken whatever options.showScreenshot says
ScreenshotStep_Always(options, shot) ==
  [calls |-> <<Call("getTweetScreenshot", 0)>>,
   el |-> IF shot = "ok" THEN <<ScreenshotEl>> ELSE <<>>]

\* the screenshot block: screenshotElement is a sequence of 0 or 1 element
ScreenshotStep(options, shot) ==
  IF ~options.showScreenshot
    THEN [calls |-> <<>>, el |-> <<>>]
    ELSE [calls |-> <<Call("getTweetScreenshot", 0)>>,
          el |-> IF shot = "ok" THEN <<ScreenshotEl>> ELSE <<>>]

\* mutant: a failed translation returns a text saying so
translateText_FailureText(text, targetLang, resp) ==
  IF text = "" THEN [calls |-> <<>>, out |-> Null]
  ELSE [calls |-> <<Call("translateText", 0)>>,
        out |-> IF resp = "ok" THEN text \o "@" \o targetLang
                ELSE "translation failed"]

\* translateText: null for an empty text, a response without content, or
\* an exception of the request
translateText(text, targetLang, resp) ==
  IF text = "" THEN [calls |-> <<>>, out |-> Null]
  ELSE [calls |-> <<Call("translateText", 0)>>,
        out |-> IF resp = "ok" THEN text \o "@" \o targetLang ELSE Null]

\* mutant: the body text is pushed before the identity line
TextSteps_BodyFirst(textParts, options, api, trans) ==
  LET ident == IF api.user_screen_name # ""
                 THEN << <<"UserID: ", api.user_screen_name>> >> ELSE <<>>
  IN IF options.sendText /\ api.text # ""
       THEN [calls |-> <<>>,
             text |-> Append(textParts, <<"Tweet: ", api.text>>) \o ident]
       ELSE [calls |-> <<>>, text |-> textParts \o ident]

\* the identity line, the body text and the translated block
TextSteps(textParts, options, api, trans) ==
  LET t1 == IF api.user_screen_name # ""
              THEN Append(textParts, <<"UserID: ", api.user_screen_name>>)
              ELSE textParts
      originalTweetText == api.text
  IN IF options.sendText /\ originalTweetText # ""
       THEN LET t2 == Append(t1, <<"Tweet: ", originalTweetText>>)
            IN IF options.enableTranslation /\ options.targetLang # Null
                 THEN LET tr == translateText(originalTweetText,
                                              options.targetLang, trans)
                      IN [calls |-> tr.calls,
                          text |-> IF tr.out # Null
                                     THEN Append(t2, <<"\n[Google Translate (",
                                                       options.targetLang,
                                                       ")]:\n", tr.out>>)
                                     ELSE t2]
                 ELSE [calls |-> <<>>, text |-> t2]
       ELSE [calls |-> <<>>, text |-> t1]

\* one downloaded item as an element: image, video/gif, or nothing
MediaElement(media, index) ==
  IF media.type = "image" THEN <<ImageEl("media", index)>>
  ELSE IF media.type = "video" \/ media.type = "gif"
         THEN <<VideoEl("media", index)>>
         ELSE <<>>

\* mutant: no try inside the loop, the first failed download ends it
RECURSIVE DownloadMedia_StopAtFailure(_, _)
DownloadMedia_StopAtFailure(media_extended, index) ==
  IF index > Len(media_extended) THEN [calls |-> <<>>, els |-> <<>>]
  ELSE LET media == media_extended[index]
           rest == DownloadMedia_StopAtFailure(media_extended, index + 1)
       IN IF media.dl = "ok"
            THEN [calls |-> <<Call("http.file", index)>> \o rest.calls,
                  els |-> MediaElement(media, index) \o rest.els]
            ELSE [calls |-> <<Call("http.file", index)>>, els |-> <<>>]

\* for (const [index, media] of apiResponse.media_extended.entries())
RECURSIVE DownloadMedia(_, _)
DownloadMedia(media_extended, index) ==
  IF index > Len(media_extended) THEN [calls |-> <<>>, els |-> <<>>]
  ELSE LET media == media_extended[index]
           rest == DownloadMedia(media_extended, index + 1)
       IN [calls |-> <<Call("http.file", index)>> \o rest.calls,
           els |-> IF media.dl = "ok"
                     THEN MediaElement(media, index) \o rest.els
                     ELSE rest.els]

\* if (options.sendMedia && apiResponse.media_extended)
MediaStep(options, api) ==
  IF options.sendMedia /\ api.hasMedia
    THEN DownloadMedia(api.media_extended, 1)
    ELSE [calls |-> <<>>, els |-> <<>>]

\* mutant: the figure is built on every platform
Compose_FigureOnAnyPlatform(textParts, mediaParts, options) ==
  IF textParts = <<>> /\ mediaParts = <<>>
    THEN PlainMsg(NoContentNotice)
    ELSE LET parts == FilterBoolean(
                        <<TextEl(JoinStr(textParts, <<"\n">>))>> \o mediaParts)
         IN IF options.useForward
              THEN [form |-> "figure", children |-> parts]
              ELSE [form |-> "flat", children |-> JoinEls(parts, <<"\n\n">>)]

\* the composition of the returned message
Compose(textParts, mediaParts, options) ==
  IF textParts = <<>> /\ mediaParts = <<>>
    THEN PlainMsg(NoContentNotice)
    ELSE LET parts == FilterBoolean(
                        <<TextEl(JoinStr(textParts, <<"\n">>))>> \o mediaParts)
         IN IF options.useForward /\ options.platform = "onebot"
              THEN [form |-> "figure", children |-> parts]
              ELSE [form |-> "flat", children |-> JoinEls(parts, <<"\n\n">>)]

\* mutant: the catch block returns what was collected, then the notice
ApiFailureResult_KeepsParts(textParts, screenshotElement) ==
  [form |-> "flat",
   children |-> JoinEls(<<TextEl(JoinStr(Append(textParts,
                                                FailureNotice("error.message")),
                                         <<"\n">>))>>
                        \o screenshotElement, <<"\n\n">>)]

\* the catch block of the API try
ApiFailureResult(textParts, screenshotElement) ==
  PlainMsg(FailureNotice("error.message"))

\* what a call that never happened leaves behind
NoLocals == [textParts |-> <<>>, mediaParts |-> <<>>]

\* mutant: the two arrays are shared by the calls, not created by each
NewLocals_Shared(left) == left

\* const textParts: string[] = []; const mediaParts: h[] = []: each call
\* starts with empty arrays, whatever an earlier call (left) collected
NewLocals(left) == [textParts |-> <<>>, mediaParts |-> <<>>]

\* one call of processTweet after calls that left the arrays `left`: the
\* message returned, the calls made to the collaborators, in order, and the
\* arrays at the end of the call
processTweetAfter(left, tweetUrl, options, env) ==
  LET locals == NewLocals(left)
      textParts0 == locals.textParts \o SeedLink(tweetUrl, options)
      shot == ScreenshotStep(options, env.shot)
      apiCall == <<Call("http.get", 0)>>
  IN IF ~env.api.ok
       THEN [result |-> ApiFailureResult(textParts0, shot.el),
             calls |-> shot.calls \o apiCall,
             left |-> [textParts |-> textParts0,
                       mediaParts |-> locals.mediaParts]]
       ELSE LET text == TextSteps(textParts0, options, env.api, env.trans)
                dl == MediaStep(options, env.api)
                mediaParts == locals.mediaParts \o shot.el \o dl.els
            IN [result |-> Compose(text.text, mediaParts, options),
                calls |-> shot.calls \o apiCall \o text.calls \o dl.calls,
                left |-> [textParts |-> text.text, mediaParts |-> mediaParts]]

processTweet(tweetUrl, options, env) ==
  processTweetAfter(NoLocals, tweetUrl, options, env)

(***************************************************************************)
(* getLatestTweetUrlByPuppeteer.  The page is the list of the articles     *)
(* matching article[data-testid="tweet"], in document order.  An article   *)
(* has or has not a socialContext element, whose textContent is a sequence *)
(* of words, and has or has not a link a[href*="/status/"]; the href of    *)
(* the k-th article is k, and 0 stands for null.                           *)
(***************************************************************************)
\* contextText.includes(marker)
Includes(contextText, marker) ==
  \E k \in 1..Len(contextText) : contextText[k] = marker

\* mutant: the pinned post is skipped only when reposts are excluded
SkipsArticle_PinnedOnlyIfExcluding(article, excludeRetweets) ==
  /\ article.hasContext
  /\ excludeRetweets
  /\ \/ Includes(article.contextText, "Pinned")
     \/ Includes(article.contextText, "Retweeted")
     \/ Includes(article.contextText, "reposted")
     \/ Includes(article.contextText, "zhuantui")

\* the two continue statements of the loop over the articles ('zhuantui'
\* stands for the marker of the Chinese interface)
SkipsArticle(article, excludeRetweets) ==
  /\ article.hasContext
  /\ \/ Includes(article.contextText, "Pinned")
     \/ /\ excludeRetweets
        /\ \/ Includes(article.contextText, "Retweeted")
           \/ Includes(article.contextText, "reposted")
           \/ Includes(article.contextText, "zhuantui")

\* the function given to page.evaluate: the href of the first article that
\* is not skipped and has a link, from the k-th on; 0 (null) if there is none
RECURSIVE EvaluateArticles(_, _, _)
EvaluateArticles(articles, k, excludeRetweets) ==
  IF k > Len(articles) THEN 0
  ELSE IF SkipsArticle(articles[k], excludeRetweets)
         THEN EvaluateArticles(articles, k + 1, excludeRetweets)
  ELSE IF articles[k].href # 0 THEN articles[k].href
  ELSE EvaluateArticles(articles, k + 1, excludeRetweets)

\* the whole call: page.goto throws, or page.waitForSelector does (as it
\* does after its timeout on a page without any article), the finally
\* closes the page and the exception leaves the function; or the link
\* found, or null, is returned
getLatestTweetUrlByPuppeteer(page, excludeRetweets) ==
  IF page.loads /\ Len(page.articles) > 0
    THEN [threw |-> FALSE,
          latestTweetUrl |-> EvaluateArticles(page.articles, 1, excludeRetweets)]
    ELSE [threw |-> TRUE, latestTweetUrl |-> 0]

(***************************************************************************)
(* Configuration of the subscription poller.                               *)
(***************************************************************************)
\* config.subscriptions: two well-formed entries and two malformed ones
subscriptions ==
  << [username |-> "alice", groupIds |-> <<"g1", "g2">>],
     [username |-> "",      groupIds |-> <<"g1">>],
     [username |-> "bob",   groupIds |-> <<"g3">>],
     [username |-> "carol", groupIds |-> <<>>] >>

Accounts == {subscriptions[k].username : k \in 1..Len(subscriptions)} \ {"", "carol"}

\* the references discovery can return
Refs == {"r1", "r2"}

\* the options checkAndPushUpdates passes to processTweet (the sub_* defaults)
subOptions ==
  [showLink |-> TRUE, showScreenshot |-> TRUE, sendText |-> TRUE,
   sendMedia |-> TRUE, useForward |-> FALSE, platform |-> "onebot",
   enableTranslation |-> FALSE, targetLang |-> "zh-CN"]

ApiFailed ==
  [ok |-> FALSE, user_screen_name |-> "", text |-> "", hasMedia |-> FALSE,
   media_extended |-> <<>>]

\* the collaborator responses a poll cycle's resolution can meet
PollEnvs ==
  { [shot |-> "ok", trans |-> "ok", api |-> ApiFailed],
    [shot |-> "ok", trans |-> "ok",
     api |-> [ok |-> TRUE, user_screen_name |-> "user", text |-> "body",
              hasMedia |-> FALSE, media_extended |-> <<>>]] }

NoMessage == PlainMsg(<<>>)

VARIABLES
  cyc,        \* the invocations of checkAndPushUpdates: locals and position
  db,         \* table twitter_subscriptions: username -> last_tweet_url
  lastDisc,   \* history: the invocation that made the latest discovery
  botOnline,  \* ctx.bots[botKey] exists and is online
  started,    \* history: the number of cycles started so far
  resolve,    \* one call of processTweet: its inputs, position and result
  discovery,  \* one call of getLatestTweetUrlByPuppeteer, likewise
  mw,         \* one run of the middleware on an incoming message
  stepper,    \* the instances made by createLogStepper and the log lines
  test,       \* one run of the single-account test command
  pages       \* the browser pages open and the calls that open them

vars ==
  <<cyc, db, lastDisc, botOnline, started, resolve, discovery, mw, stepper,
    test, pages>>

\* the variables of the calls that are followed on their own
standalone == <<resolve, discovery, mw, stepper, test, pages>>

\* the invocations of checkAndPushUpdates in flight at one time: the one
\* the timer started and the one the command started; nothing keeps one
\* from starting while the other is suspended
Cycles == {"timer", "command"}
Other(c) == IF c = "timer" THEN "command" ELSE "timer"

\* the locals of one iteration of the for loop
EntryLocals ==
  [latestTweetUrl |-> Null, stale |-> FALSE, lastUrl |-> Null, isNew |-> FALSE,
   shouldPush |-> FALSE, messageToSend |-> NoMessage, g |-> 0,
   sent |-> <<>>, err |-> "none", wrote |-> FALSE]

IdleCycle ==
  [pc |-> "idle", forced |-> FALSE, i |-> 0, updatesFound |-> 0,
   ret |-> "pending", visited |-> {}, errored |-> {}, delivered |-> 0,
   e |-> EntryLocals]

NoResolve ==
  [phase |-> "off", tweetUrl |-> Null, options |-> subOptions,
   env |-> [shot |-> "ok", trans |-> "ok", api |-> ApiFailed],
   out |-> [result |-> NoMessage, calls |-> <<>>, left |-> NoLocals],
   again |-> [result |-> NoMessage, calls |-> <<>>, left |-> NoLocals]]

NoDiscovery ==
  [phase |-> "off", page |-> [loads |-> FALSE, articles |-> <<>>],
   excludeRetweets |-> TRUE, out |-> [threw |-> FALSE, latestTweetUrl |-> 0]]

\* a run of the middleware that never happened; lastIndex is the property
\* of the shared TWEET_URL_REGEX, counted in words of the content
NoMiddleware ==
  [pc |-> "off", content |-> <<>>, lastIndex |-> 0, match |-> Null,
   platform |-> "onebot", env |-> [shot |-> "ok", trans |-> "ok", api |-> ApiFailed],
   messageToSend |-> NoMessage, trace |-> <<>>, placeholder |-> "none"]

\* no stepper made, nothing logged; config.logDetails as configured
NoStepper(logDetails) ==
  [logDetails |-> logDetails, made |-> 0, step |-> <<>>, calls |-> 0,
   lines |-> <<>>]

\* the invoking session of a command: session.platform and the channel that
\* session.send answers to, which may be a group that is also subscribed
Sessions == [platform : {"onebot", "discord"}, channel : {"g1", "private"}]

\* a run of the test command that never happened
NoTest ==
  [pc |-> "off", username |-> "",
   session |-> [platform |-> "onebot", channel |-> "private"],
   env |-> [shot |-> "ok", trans |-> "ok", api |-> ApiFailed],
   latestTweetUrl |-> Null, messageToSend |-> NoMessage, sent |-> <<>>,
   ret |-> "pending"]

\* the calls that may hold a browser page at one time
Callers == {"first", "second"}

NoCall == [op |-> "none", pc |-> "idle", at |-> 0, failure |-> "none"]

\* no page open, no call in flight
NoPages == [open |-> {}, call |-> [k \in Callers |-> NoCall]]

Init ==
  /\ cyc = [c \in Cycles |-> IdleCycle]
  /\ db = [a \in Accounts |-> Null]
  /\ lastDisc = Null
  /\ botOnline \in BOOLEAN
  /\ started = 0
  /\ resolve = NoResolve
  /\ discovery = NoDiscovery
  /\ mw = NoMiddleware
  /\ stepper = NoStepper(FALSE)
  /\ test = NoTest
  /\ pages = NoPages

\* mutant: only the missing handle makes the loop skip the entry
WellFormed_HandleOnly(sub) == sub.username # ""

\* if (!sub.username || !sub.groupIds || sub.groupIds.length === 0) continue
WellFormed(sub) == sub.username # "" /\ Len(sub.groupIds) > 0

\* the next entry at or after j that the loop does not skip
RECURSIVE NextEntry(_)
NextEntry(j) ==
  IF j > Len(subscriptions) THEN j
  ELSE IF WellFormed(subscriptions[j]) THEN j
  ELSE NextEntry(j + 1)

\* the head of the for loop, up to the call of discovery or the return
EnterLoop(cs, j) ==
  LET k == NextEntry(j)
  IN IF k > Len(subscriptions)
       THEN [cs EXCEPT !.pc = "done", !.i = k, !.e = EntryLocals,
                       !.ret = IF cs.forced THEN "summary" ELSE "undefined"]
       ELSE [cs EXCEPT !.pc = "discover", !.i = k, !.e = EntryLocals,
                       !.visited = @ \cup {k}]

\* const isNew = !lastUrl || lastUrl !== latestTweetUrl
IsNew(lastUrl, latestTweetUrl) ==
  lastUrl = Null \/ lastUrl # latestTweetUrl

\* mutant: a forced cycle does not push an unchanged post
ShouldPush_OnlyNew(isNew, isManualTrigger, latestTweetUrl) == isNew

\* const shouldPush = isNew || (isManualTrigger && latestTweetUrl)
ShouldPush(isNew, isManualTrigger, latestTweetUrl) ==
  isNew \/ (isManualTrigger /\ latestTweetUrl # Null)

\* mutant: every push is persisted
ShouldUpsert_EveryPush(isNew, shouldPush) == shouldPush

\* if (isNew) upsert
ShouldUpsert(isNew, shouldPush) == isNew

\* mutant: no try around the entry, the exception leaves the function
CatchEntry_Abort(cs, what) ==
  [cs EXCEPT !.pc = "done", !.ret = "threw", !.e.err = what,
             !.errored = @ \cup {cs.i}]

\* mutant: the entry is tried again after an exception
CatchEntry_Retry(cs, what) ==
  [cs EXCEPT !.pc = "discover", !.e = EntryLocals, !.errored = @ \cup {cs.i}]

\* the catch of the per-entry try: the loop goes on with the sleep
CatchEntry(cs, what) ==
  [cs EXCEPT !.pc = "sleep", !.e.err = what, !.errored = @ \cup {cs.i}]

\* mutant: the exception of sendMessage is swallowed and the record written
SendFailed_StillWrites(cs) == [cs EXCEPT !.pc = "upsert", !.e.err = "send"]

\* an exception of sendMessage inside the for loop over groupIds: it is not
\* caught in the loop, so it reaches the catch of the entry
SendFailed(cs) == CatchEntry(cs, "send")

\* history: the invocation holds a reference it discovered for account a
\* and has not finished that entry
HoldsDiscovery(cs, a) ==
  /\ cs.pc \in {"dbget", "resolve", "send", "upsert"}
  /\ subscriptions[cs.i].username = a

(***************************************************************************)
(* The actions of a poll cycle, one per awaited call.  The history field   *)
(* e.stale of an invocation says that, since its discovery, the record of  *)
(* its account was written with a reference discovered later than its own  *)
(* (with two invocations, the one that discovered last).  The history      *)
(* field delivered counts the entries of the cycle whose message reached   *)
(* a destination.                                                          *)
(***************************************************************************)
\* mutant: the cycle does not look at the bot
BotUnavailable_Ignored(online) == FALSE

\* if (!bot || !bot.online)
BotUnavailable(online) == ~online

\* mutant: a cycle starts only when no other invocation is running
MayStart_Exclusive(other) == other.pc \in {"idle", "done"}

\* the entry of checkAndPushUpdates looks at config.enableSubscription only:
\* no flag or lock tells it that another invocation is running
MayStart(other) == TRUE

\* the timer or the command calls checkAndPushUpdates(isManualTrigger)
StartCycle(c) ==
  /\ cyc[c].pc \in {"idle", "done"}
  /\ MayStart(cyc[Other(c)])
  /\ started < MaxCycles
  /\ started' = started + 1
  /\ LET isManualTrigger == (c = "command")
     IN cyc' = [cyc EXCEPT ![c] =
          IF BotUnavailable(botOnline)
            THEN [IdleCycle EXCEPT !.pc = "done", !.forced = isManualTrigger,
                                   !.ret = IF isManualTrigger THEN "offline"
                                           ELSE "undefined"]
            ELSE EnterLoop([IdleCycle EXCEPT !.forced = isManualTrigger], 1)]
  /\ UNCHANGED <<db, lastDisc, botOnline, standalone>>

\* mutant: the entry is processed whatever discovery returned
Found_Always(latestTweetUrl) == TRUE

\* if (!latestTweetUrl) { skip } else { ... }
Found(latestTweetUrl) == latestTweetUrl # Null

\* mutant: the entry without a post is left with continue, without the wait
SkipEntry_Continue(cs) == EnterLoop(cs, cs.i + 1)

\* the branch of a null discovery: a log line, then the statements after the
\* try, which end with the sleep
SkipEntry(cs) == [cs EXCEPT !.pc = "sleep"]

\* getLatestTweetUrlByPuppeteer returns a link, returns null, or throws
Discover(c) ==
  /\ cyc[c].pc = "discover"
  /\ \/ \E r \in Refs \cup {Null} :
          /\ cyc' = [cyc EXCEPT ![c] =
                       IF Found(r)
                         THEN [@ EXCEPT !.pc = "dbget", !.e.latestTweetUrl = r]
                         ELSE SkipEntry(@)]
          /\ lastDisc' = IF Found(r) THEN c ELSE lastDisc
     \/ /\ cyc' = [cyc EXCEPT ![c] = CatchEntry(@, "discover")]
        /\ UNCHANGED lastDisc
  /\ UNCHANGED <<db, botOnline, started, standalone>>

\* ctx.database.get returns the record, or throws
DbGet(c) ==
  /\ cyc[c].pc = "dbget"
  /\ \/ LET cs == cyc[c]
            lastUrl == db[subscriptions[cs.i].username]
            isNew == IsNew(lastUrl, cs.e.latestTweetUrl)
            shouldPush == ShouldPush(isNew, cs.forced, cs.e.latestTweetUrl)
        IN cyc' = [cyc EXCEPT ![c] =
             [@ EXCEPT !.pc = IF shouldPush THEN "resolve" ELSE "sleep",
                       !.updatesFound = IF shouldPush THEN @ + 1 ELSE @,
                       !.e.lastUrl = lastUrl, !.e.isNew = isNew,
                       !.e.shouldPush = shouldPush]]
     \/ cyc' = [cyc EXCEPT ![c] = CatchEntry(@, "dbget")]
  /\ UNCHANGED <<db, lastDisc, botOnline, started, standalone>>

\* processTweet returns the message; the loop over groupIds starts
Resolve(c) ==
  /\ cyc[c].pc = "resolve"
  /\ \E env \in PollEnvs :
       cyc' = [cyc EXCEPT ![c].pc = "send", ![c].e.g = 1,
                 ![c].e.messageToSend =
                   processTweet(cyc[c].e.latestTweetUrl, subOptions, env).result]
  /\ UNCHANGED <<db, lastDisc, botOnline, started, standalone>>

\* mutant: the destinations are served last to first
Destination_Reversed(groupIds, g) == groupIds[Len(groupIds) + 1 - g]

\* for (const groupId of sub.groupIds): the g-th destination served
Destination(groupIds, g) == groupIds[g]

\* bot.sendMessage(groupId, messageToSend) returns, or throws
Send(c) ==
  /\ cyc[c].pc = "send"
  /\ LET cs == cyc[c]
         groupIds == subscriptions[cs.i].groupIds
     IN \/ cyc' = [cyc EXCEPT ![c] =
             [@ EXCEPT !.e.sent = Append(@, Destination(groupIds, cs.e.g)),
                       !.e.g = @ + 1,
                       !.delivered = IF cs.e.sent = <<>> THEN @ + 1 ELSE @,
                       !.pc = IF cs.e.g < Len(groupIds) THEN "send"
                              ELSE IF ShouldUpsert(cs.e.isNew, cs.e.shouldPush)
                                     THEN "upsert" ELSE "sleep"]]
        \/ cyc' = [cyc EXCEPT ![c] = SendFailed(@)]
  /\ UNCHANGED <<db, lastDisc, botOnline, started, standalone>>

\* ctx.database.upsert writes the record, or throws
Upsert(c) ==
  /\ cyc[c].pc = "upsert"
  /\ LET cs == cyc[c]
         a == subscriptions[cs.i].username
         o == Other(c)
     IN \/ /\ db' = [db EXCEPT ![a] = cs.e.latestTweetUrl]
           /\ cyc' = [cyc EXCEPT
                 ![c].pc = "sleep", ![c].e.wrote = TRUE,
                 ![o].e.stale = IF HoldsDiscovery(cyc[o], a)
                                  THEN lastDisc = c ELSE @]
        \/ /\ cyc' = [cyc EXCEPT ![c] = CatchEntry(@, "upsert")]
           /\ UNCHANGED db
  /\ UNCHANGED <<lastDisc, botOnline, started, standalone>>

\* await sleep(3 * Time.second) ends; the loop takes the next entry
Sleep(c) ==
  /\ cyc[c].pc = "sleep"
  /\ cyc' = [cyc EXCEPT ![c] = EnterLoop(@, cyc[c].i + 1)]
  /\ UNCHANGED <<db, lastDisc, botOnline, started, standalone>>

\* the bot goes offline or comes back
BotChange ==
  /\ botOnline' = ~botOnline
  /\ UNCHANGED <<cyc, db, lastDisc, started, standalone>>

Next ==
  \/ \E c \in Cycles : StartCycle(c)
  \/ \E c \in Cycles : Discover(c)
  \/ \E c \in Cycles : DbGet(c)
  \/ \E c \in Cycles : Resolve(c)
  \/ \E c \in Cycles : Send(c)
  \/ \E c \in Cycles : Upsert(c)
  \/ \E c \in Cycles : Sleep(c)
  \/ BotChange

Spec == Init /\ [][Next]_vars

\* every awaited call of an invocation returns or throws in the end, and
\* every sleep ends; nothing is assumed about when cycles start or about
\* the bot
Returns(c) ==
  Discover(c) \/ DbGet(c) \/ Resolve(c) \/ Send(c) \/ Upsert(c) \/ Sleep(c)

SpecLive == Spec /\ \A c \in Cycles : WF_vars(Returns(c))

(***************************************************************************)
(* processTweet alone: one call on every combination of options and        *)
(* collaborator responses within the bounds.                               *)
(***************************************************************************)
ResolveOptions ==
  [showLink : BOOLEAN, showScreenshot : BOOLEAN, sendText : BOOLEAN,
   sendMedia : BOOLEAN, useForward : BOOLEAN, platform : {"onebot", "discord"},
   enableTranslation : BOOLEAN, targetLang : {Null, "zh-CN"}]

\* an item of media_extended: its type and the outcome of its download (a
\* failed download throws before the type is looked at, so one failing item
\* stands for all)
MediaItems ==
  [type : {"image", "video", "gif"}, dl : {"ok"}]
  \cup {[type |-> "image", dl |-> "fail"]}

MediaLists == UNION {[1..n -> MediaItems] : n \in 0..MaxMedia}

ApiResponses ==
  {ApiFailed}
  \cup [ok : {TRUE}, user_screen_name : {"", "user"}, text : {"", "body"},
        hasMedia : {FALSE}, media_extended : {<<>>}]
  \cup [ok : {TRUE}, user_screen_name : {"", "user"}, text : {"", "body"},
        hasMedia : {TRUE}, media_extended : MediaLists]

ResolveEnvs ==
  [shot : {"ok", "fail", "empty"}, trans : {"ok", "empty", "throw"},
   api : ApiResponses]

InitResolve ==
  /\ cyc = [c \in Cycles |-> IdleCycle]
  /\ db = [a \in Accounts |-> Null]
  /\ lastDisc = Null
  /\ botOnline = TRUE
  /\ started = 0
  /\ \E options \in ResolveOptions, env \in ResolveEnvs :
       resolve = [NoResolve EXCEPT !.phase = "called", !.tweetUrl = "r1",
                                   !.options = options, !.env = env]
  /\ discovery = NoDiscovery
  /\ mw = NoMiddleware
  /\ stepper = NoStepper(FALSE)
  /\ test = NoTest
  /\ pages = NoPages

\* the call returns
ResolveReturn ==
  /\ resolve.phase = "called"
  /\ resolve' = [resolve EXCEPT
       !.phase = "returned",
       !.out = processTweet(resolve.tweetUrl, resolve.options, resolve.env)]
  /\ UNCHANGED <<cyc, db, lastDisc, botOnline, started, discovery, mw, stepper,
               test, pages>>

\* processTweet is called again with the same arguments, the collaborators
\* answer as before, and the call returns
ResolveAgain ==
  /\ resolve.phase = "returned"
  /\ resolve' = [resolve EXCEPT
       !.phase = "returned twice",
       !.again = processTweetAfter(resolve.out.left, resolve.tweetUrl,
                                   resolve.options, resolve.env)]
  /\ UNCHANGED <<cyc, db, lastDisc, botOnline, started, discovery, mw, stepper,
               test, pages>>

NextResolve == ResolveReturn \/ ResolveAgain

SpecResolve == InitResolve /\ [][NextResolve]_vars

(***************************************************************************)
(* getLatestTweetUrlByPuppeteer alone: one call on every page within the   *)
(* bounds, with and without the exclusion of reposts.                      *)
(***************************************************************************)
\* the textContent of a socialContext element
ContextTexts ==
  { <<"liked">>, <<"Pinned">>, <<"Retweeted">>, <<"reposted">>, <<"zhuantui">> }

\* the k-th article of a page
Articles(k) ==
  [hasContext : {TRUE}, contextText : ContextTexts, href : {0, k}]
  \cup [hasContext : {FALSE}, contextText : {<<>>}, href : {0, k}]

Pages ==
  [loads : BOOLEAN,
   articles : UNION { {f \in [1..n -> UNION {Articles(k) : k \in 1..n}] :
                         \A k \in 1..n : f[k] \in Articles(k)}
                      : n \in 0..MaxArticles }]

InitDiscover ==
  /\ cyc = [c \in Cycles |-> IdleCycle]
  /\ db = [a \in Accounts |-> Null]
  /\ lastDisc = Null
  /\ botOnline = TRUE
  /\ started = 0
  /\ resolve = NoResolve
  /\ mw = NoMiddleware
  /\ stepper = NoStepper(FALSE)
  /\ test = NoTest
  /\ pages = NoPages
  /\ \E page \in Pages, excludeRetweets \in BOOLEAN :
       discovery = [NoDiscovery EXCEPT !.phase = "called", !.page = page,
                                       !.excludeRetweets = excludeRetweets]

\* the call returns, or throws
DiscoverReturn ==
  /\ discovery.phase = "called"
  /\ discovery' = [discovery EXCEPT
       !.phase = "ended",
       !.out = getLatestTweetUrlByPuppeteer(discovery.page,
                                            discovery.excludeRetweets)]
  /\ UNCHANGED <<cyc, db, lastDisc, botOnline, started, resolve, mw, stepper,
               test, pages>>

NextDiscover == DiscoverReturn

SpecDiscover == InitDiscover /\ [][NextDiscover]_vars

(***************************************************************************)
(* The middleware alone: one incoming message, a sequence of words, some   *)
(* of which are links.  trace is the history of what the session was made  *)
(* to do, placeholder the state of the status message in the channel.      *)
(***************************************************************************)
\* the words of a message: plain text, status links of the two hosts, a
\* profile link and a status link of another host
Words ==
  { "look", "https://x.com/u/status/1", "http://twitter.com/u/status/2",
    "https://x.com/u", "https://example.com/u/status/3" }

\* /https?:\/\/(twitter\.com|x\.com)\/(\w+)\/status\/(\d+)/ matches the word
MatchesTweetUrl(word) ==
  word \in {"https://x.com/u/status/1", "http://twitter.com/u/status/2"}

\* TWEET_URL_REGEX.exec(content) with the g flag: the position of the first
\* match after lastIndex, 0 (null) if there is none
RECURSIVE RegexExec(_, _)
RegexExec(content, lastIndex) ==
  IF lastIndex >= Len(content) THEN 0
  ELSE IF MatchesTweetUrl(content[lastIndex + 1]) THEN lastIndex + 1
  ELSE RegexExec(content, lastIndex + 1)

\* TWEET_URL_REGEX.lastIndex = 0
ResetLastIndex(lastIndex) == 0

\* the options the middleware passes to processTweet (the defaults of the
\* configuration, and the platform of the session)
mwOptions(platform) ==
  [showLink |-> FALSE, showScreenshot |-> TRUE, sendText |-> TRUE,
   sendMedia |-> TRUE, useForward |-> TRUE, platform |-> platform,
   enableTranslation |-> FALSE, targetLang |-> "zh-CN"]

Contents == UNION {[1..n -> Words] : n \in 0..MaxWords}

InitMiddleware ==
  /\ cyc = [c \in Cycles |-> IdleCycle]
  /\ db = [a \in Accounts |-> Null]
  /\ lastDisc = Null
  /\ botOnline = TRUE
  /\ started = 0
  /\ resolve = NoResolve
  /\ discovery = NoDiscovery
  /\ stepper = NoStepper(FALSE)
  /\ test = NoTest
  /\ pages = NoPages
  /\ \E content \in Contents, lastIndex \in 0..MaxWords,
        platform \in {"onebot", "discord"} :
       mw = [NoMiddleware EXCEPT !.pc = "received", !.content = content,
                                 !.lastIndex = lastIndex,
                                 !.platform = platform]

\* the middleware looks for a link: without one it calls next()
MwMatch ==
  /\ mw.pc = "received"
  /\ LET k == RegexExec(mw.content, ResetLastIndex(mw.lastIndex))
     IN mw' = IF k = 0
                THEN [mw EXCEPT !.pc = "next", !.lastIndex = 0,
                                !.trace = Append(@, [ev |-> "next", of |-> Null])]
                ELSE [mw EXCEPT !.pc = "placeholder", !.lastIndex = k,
                                !.match = mw.content[k]]
  /\ UNCHANGED <<cyc, db, lastDisc, botOnline, started, resolve, discovery, stepper,
               test, pages>>

\* session.send of the status message returns, or throws
MwPlaceholder ==
  /\ mw.pc = "placeholder"
  /\ \/ mw' = [mw EXCEPT !.pc = "resolve", !.placeholder = "shown",
                         !.trace = Append(@, [ev |-> "placeholder", of |-> Null])]
     \/ mw' = [mw EXCEPT !.pc = "threw"]
  /\ UNCHANGED <<cyc, db, lastDisc, botOnline, started, resolve, discovery, stepper,
               test, pages>>

\* processTweet(match[0], ...) returns the message
MwResolve ==
  /\ mw.pc = "resolve"
  /\ \E env \in PollEnvs :
       mw' = [mw EXCEPT !.pc = "send", !.env = env,
                        !.messageToSend =
                          processTweet(mw.match, mwOptions(mw.platform), env).result]
  /\ UNCHANGED <<cyc, db, lastDisc, botOnline, started, resolve, discovery, stepper,
               test, pages>>

\* session.send(messageToSend) returns, or throws
MwSend ==
  /\ mw.pc = "send"
  /\ \/ mw' = [mw EXCEPT !.pc = "delete",
                         !.trace = Append(@, [ev |-> "message", of |-> mw.match])]
     \/ mw' = [mw EXCEPT !.pc = "threw"]
  /\ UNCHANGED <<cyc, db, lastDisc, botOnline, started, resolve, discovery, stepper,
               test, pages>>

\* session.bot.deleteMessage(channelId, statusMessage[0]) returns, or throws
MwDelete ==
  /\ mw.pc = "delete"
  /\ \/ mw' = [mw EXCEPT !.pc = "done", !.placeholder = "deleted",
                         !.trace = Append(@, [ev |-> "delete", of |-> Null])]
     \/ mw' = [mw EXCEPT !.pc = "threw"]
  /\ UNCHANGED <<cyc, db, lastDisc, botOnline, started, resolve, discovery, stepper,
               test, pages>>

NextMiddleware == MwMatch \/ MwPlaceholder \/ MwResolve \/ MwSend \/ MwDelete

SpecMiddleware == InitMiddleware /\ [][NextMiddleware]_vars

(***************************************************************************)
(* createLogStepper alone: instances are made and called in any order.     *)
(* Every instance has its own variable step; lines is the log, a line      *)
(* being the instance that wrote it, the number it carries and its level.  *)
(***************************************************************************)
\* mutant: one counter for all instances
StepOf_Shared(step, id) == step[1]

\* the variable step of the closure of instance id
StepOf(step, id) == step[id]

InitStepper ==
  /\ cyc = [c \in Cycles |-> IdleCycle]
  /\ db = [a \in Accounts |-> Null]
  /\ lastDisc = Null
  /\ botOnline = TRUE
  /\ started = 0
  /\ resolve = NoResolve
  /\ discovery = NoDiscovery
  /\ mw = NoMiddleware
  /\ \E logDetails \in BOOLEAN : stepper = NoStepper(logDetails)
  /\ test = NoTest
  /\ pages = NoPages

\* createLogStepper(prefix): let step = 1, and the closure is returned
CreateLogStepper ==
  /\ stepper.made < MaxSteppers
  /\ stepper' = [stepper EXCEPT !.made = @ + 1, !.step = Append(@, 1)]
  /\ UNCHANGED <<cyc, db, lastDisc, botOnline, started, resolve, discovery, mw,
               test, pages>>

\* log(message, isWarning) on instance id: with config.logDetails the line
\* is written with step++, without it nothing happens
LogStep(id) ==
  /\ stepper.calls < MaxLogCalls
  /\ \E isWarning \in BOOLEAN :
       stepper' =
         IF stepper.logDetails
           THEN [stepper EXCEPT
                   !.calls = @ + 1,
                   !.lines = Append(@, [id |-> id,
                                        step |-> StepOf(stepper.step, id),
                                        warn |-> isWarning]),
                   !.step[id] = StepOf(stepper.step, id) + 1]
           ELSE [stepper EXCEPT !.calls = @ + 1]
  /\ UNCHANGED <<cyc, db, lastDisc, botOnline, started, resolve, discovery, mw,
               test, pages>>

NextStepper ==
  \/ CreateLogStepper
  \/ \E id \in 1..stepper.made : LogStep(id)

SpecStepper == InitStepper /\ [][NextStepper]_vars

(***************************************************************************)
(* The single-account test command alone: one run, from any state of the   *)
(* table twitter_subscriptions.                                            *)
(***************************************************************************)
\* the <username> argument: none, a subscribed account, one not subscribed
TestUsernames == {"", "alice", "dave"}

\* mutant: the message goes to a destination of the first subscription entry
SessionSend_ToSubscribers(session, content) ==
  [channel |-> subscriptions[1].groupIds[2], platform |-> "onebot",
   content |-> content]

\* session.send(content): the message goes to the channel of the session
SessionSend(session, content) ==
  [channel |-> session.channel, platform |-> session.platform,
   content |-> content]

\* the options the command passes to processTweet: the sub_* settings, with
\* platform: session.platform
testOptions(session) == [subOptions EXCEPT !.platform = session.platform]

\* return `测试失败: ${error.message}` of the catch
TestFailed(t) == [t EXCEPT !.pc = "returned", !.ret = "test failed"]

InitTest ==
  /\ cyc = [c \in Cycles |-> IdleCycle]
  /\ db \in [Accounts -> Refs \cup {Null}]
  /\ lastDisc = Null
  /\ botOnline \in BOOLEAN
  /\ started = 0
  /\ resolve = NoResolve
  /\ discovery = NoDiscovery
  /\ mw = NoMiddleware
  /\ stepper = NoStepper(FALSE)
  /\ test = NoTest
  /\ pages = NoPages

\* the command is invoked: if (!username) return '请输入要测试的用户名.'
TestInvoke ==
  /\ test.pc = "off"
  /\ \E session \in Sessions, username \in TestUsernames, env \in PollEnvs :
       test' = [test EXCEPT
         !.session = session, !.username = username, !.env = env,
         !.pc = IF username = "" THEN "returned" ELSE "notice",
         !.ret = IF username = "" THEN "no username" ELSE "pending"]
  /\ UNCHANGED <<cyc, db, lastDisc, botOnline, started, resolve, discovery, mw,
               stepper, pages>>

\* await session.send(`正在为 [${username}] ...`), before the try: if it
\* throws, the action throws
TestNotice ==
  /\ test.pc = "notice"
  /\ \/ test' = [test EXCEPT
           !.sent = Append(@, SessionSend(test.session, PlainMsg(<<"notice">>))),
           !.pc = "discover"]
     \/ test' = [test EXCEPT !.pc = "threw"]
  /\ UNCHANGED <<cyc, db, lastDisc, botOnline, started, resolve, discovery, mw,
               stepper, pages>>

\* getLatestTweetUrlByPuppeteer(ctx.puppeteer, username, config.cookie, true,
\* log) returns a link or null, or throws
TestDiscover ==
  /\ test.pc = "discover"
  /\ \/ \E r \in Refs : test' = [test EXCEPT !.latestTweetUrl = r, !.pc = "link"]
     \/ test' = [test EXCEPT !.pc = "returned", !.ret = "not found"]
     \/ test' = TestFailed(test)
  /\ UNCHANGED <<cyc, db, lastDisc, botOnline, started, resolve, discovery, mw,
               stepper, pages>>

\* await session.send(`成功获取到最新推文链接: ...`)
TestLink ==
  /\ test.pc = "link"
  /\ \/ test' = [test EXCEPT
           !.sent = Append(@, SessionSend(test.session, PlainMsg(<<"link">>))),
           !.pc = "resolve"]
     \/ test' = TestFailed(test)
  /\ UNCHANGED <<cyc, db, lastDisc, botOnline, started, resolve, discovery, mw,
               stepper, pages>>

\* const messageToSend = await processTweet(latestTweetUrl, {...})
TestResolve ==
  /\ test.pc = "resolve"
  /\ test' = [test EXCEPT
       !.messageToSend = processTweet(test.latestTweetUrl,
                                      testOptions(test.session), test.env).result,
       !.pc = "send"]
  /\ UNCHANGED <<cyc, db, lastDisc, botOnline, started, resolve, discovery, mw,
               stepper, pages>>

\* await session.send(messageToSend), the last statement of the try
TestSend ==
  /\ test.pc = "send"
  /\ \/ test' = [test EXCEPT
           !.sent = Append(@, SessionSend(test.session, test.messageToSend)),
           !.pc = "returned", !.ret = "sent"]
     \/ test' = TestFailed(test)
  /\ UNCHANGED <<cyc, db, lastDisc, botOnline, started, resolve, discovery, mw,
               stepper, pages>>

NextTest ==
  TestInvoke \/ TestNotice \/ TestDiscover \/ TestLink \/ TestResolve \/ TestSend

SpecTest == InitTest /\ [][NextTest]_vars

(***************************************************************************)
(* The browser pages of getLatestTweetUrlByPuppeteer and                   *)
(* getTweetScreenshot: two calls that may be in flight together.           *)
(***************************************************************************)
Operations == {"discovery", "screenshot"}

\* the awaits inside the try of each operation, in order
TrySteps(op) ==
  IF op = "discovery"
    THEN <<"setCookie", "goto", "waitForSelector", "evaluate">>
    ELSE <<"setCookie", "goto", "waitForSelector", "screenshot">>

\* the ways an await inside the try fails
Failures == {"timeout", "error"}

InitPages ==
  /\ cyc = [c \in Cycles |-> IdleCycle]
  /\ db = [a \in Accounts |-> Null]
  /\ lastDisc = Null
  /\ botOnline = TRUE
  /\ started = 0
  /\ resolve = NoResolve
  /\ discovery = NoDiscovery
  /\ mw = NoMiddleware
  /\ stepper = NoStepper(FALSE)
  /\ test = NoTest
  /\ pages = NoPages

Settled(call) == call.pc \in {"idle", "returned", "threw"}

\* one of the two functions is called
PageCall(k) ==
  /\ Settled(pages.call[k])
  /\ \E op \in Operations :
       pages' = [pages EXCEPT
         !.call[k] = [op |-> op, pc |-> "page", at |-> 0, failure |-> "none"]]
  /\ UNCHANGED <<cyc, db, lastDisc, botOnline, started, resolve, discovery, mw,
               stepper, test>>

\* const page = await puppeteer.page(), before the try: a page is opened, or
\* the call throws without one
PageOpen(k) ==
  /\ pages.call[k].pc = "page"
  /\ \/ pages' = [pages EXCEPT !.open = @ \cup {k},
                               !.call[k].pc = "try", !.call[k].at = 1]
     \/ pages' = [pages EXCEPT !.call[k].pc = "threw",
                               !.call[k].failure = "no page"]
  /\ UNCHANGED <<cyc, db, lastDisc, botOnline, started, resolve, discovery, mw,
               stepper, test>>

\* mutant: page.close() is the last statement of the try
AfterTry_CloseOnSuccess(call, failure) ==
  IF failure = "none"
    THEN [call EXCEPT !.pc = "finally", !.failure = failure]
    ELSE [call EXCEPT !.pc = "threw", !.failure = failure]

\* the try block is left, by return or by throw: control goes to finally
AfterTry(call, failure) ==
  [call EXCEPT !.pc = "finally", !.failure = failure]

\* one await inside the try resolves or throws
TryStep(k) ==
  LET call == pages.call[k] IN
  /\ call.pc = "try"
  /\ \/ pages' = [pages EXCEPT !.call[k] =
                    IF call.at = Len(TrySteps(call.op))
                      THEN AfterTry(call, "none")
                      ELSE [call EXCEPT !.at = @ + 1]]
     \/ \E f \in Failures :
          pages' = [pages EXCEPT !.call[k] = AfterTry(call, f)]
  /\ UNCHANGED <<cyc, db, lastDisc, botOnline, started, resolve, discovery, mw,
               stepper, test>>

\* finally { await page.close(); } and then the call returns or throws
PageClose(k) ==
  /\ pages.call[k].pc = "finally"
  /\ pages' = [pages EXCEPT
       !.open = @ \ {k},
       !.call[k].pc = IF pages.call[k].failure = "none"
                        THEN "returned" ELSE "threw"]
  /\ UNCHANGED <<cyc, db, lastDisc, botOnline, started, resolve, discovery, mw,
               stepper, test>>

NextPages ==
  \E k \in Callers : PageCall(k) \/ PageOpen(k) \/ TryStep(k) \/ PageClose(k)

SpecPages == InitPages /\ [][NextPages]_vars

(***************************************************************************)
(* Properties of processTweet.                                             *)
(***************************************************************************)
Returned == resolve.phase \in {"returned", "returned twice"}

\* the text of a message: its text elements other than the separators of
\* the flat rendering
TextSegments(msg) ==
  SelectSeq(msg.children, LAMBDA e : e.tag = "text" /\ e.txt # <<"\n\n">>)

MediaSegments(msg) ==
  SelectSeq(msg.children, LAMBDA e : e.tag \in {"image", "video"})

\* the calls of one collaborator, in order
CallsOf(calls, fn) == SelectSeq(calls, LAMBDA k : k.fn = fn)

\* the indexes of the items of a list whose download succeeds, ascending
RECURSIVE Downloaded(_, _)
Downloaded(list, k) ==
  IF k > Len(list) THEN <<>>
  ELSE (IF list[k].dl = "ok" THEN <<k>> ELSE <<>>) \o Downloaded(list, k + 1)

\* the response with every download succeeding
AllDownloadsOk(api) ==
  [api EXCEPT !.media_extended =
     [k \in 1..Len(api.media_extended) |->
        [api.media_extended[k] EXCEPT !.dl = "ok"]]]

\* C7: when the metadata fetch fails, the message returned is exactly one
\* text segment, the failure notice, and has no media segment: neither the
\* seeded link nor a captured screenshot is part of it.
C7_FetchFailureGivesNoticeOnly ==
  (Returned /\ ~resolve.env.api.ok) =>
     /\ TextSegments(resolve.out.result)
          = <<TextEl(FailureNotice("error.message"))>>
     /\ MediaSegments(resolve.out.result) = <<>>
     /\ Len(resolve.out.result.children) = 1

\* C7 witness: the fetch failed after the link was seeded and the screenshot
\* was captured
C7_Witness ==
  /\ Returned /\ ~resolve.env.api.ok
  /\ resolve.options.showLink
  /\ resolve.options.showScreenshot /\ resolve.env.shot = "ok"

\* C8: when showScreenshot is set and the screenshot fails, the message
\* returned is the one returned for the same inputs without showScreenshot.
C8_ScreenshotFailureNotFatal ==
  (Returned /\ resolve.options.showScreenshot /\ resolve.env.shot = "fail") =>
     resolve.out.result =
       processTweet(resolve.tweetUrl,
                    [resolve.options EXCEPT !.showScreenshot = FALSE],
                    resolve.env).result

\* C8 witness: the screenshot failed and the resolution returned text and
\* downloaded media
C8_Witness ==
  /\ Returned /\ resolve.options.showScreenshot /\ resolve.env.shot = "fail"
  /\ resolve.env.api.ok
  /\ TextSegments(resolve.out.result) # <<>>
  /\ MediaSegments(resolve.out.result) # <<>>

\* C9: without showScreenshot the screenshot collaborator is not called, and
\* the message is the same for every outcome the collaborator could give.
C9_NoScreenshotNoCapture ==
  (Returned /\ ~resolve.options.showScreenshot) =>
     /\ CallsOf(resolve.out.calls, "getTweetScreenshot") = <<>>
     /\ \A shot \in {"ok", "fail", "empty"} :
          processTweet(resolve.tweetUrl, resolve.options,
                       [resolve.env EXCEPT !.shot = shot]).result
            = resolve.out.result

\* C9 witness: a resolution without showScreenshot, of a post whose
\* screenshot would fail, returned content
C9_Witness ==
  /\ Returned /\ ~resolve.options.showScreenshot
  /\ resolve.env.shot = "fail" /\ resolve.env.api.ok
  /\ resolve.out.result.form # "plain"

\* C10 (as claimed): with sendMedia, the media segments after the screenshot
\* are the items whose download succeeded, in the order of the list; every
\* item of the list is requested, in order; the text is the one returned
\* when every download succeeds.
C10_AsClaimed ==
  (Returned /\ resolve.env.api.ok /\ resolve.options.sendMedia
     /\ resolve.env.api.hasMedia) =>
     LET list == resolve.env.api.media_extended
         items == SelectSeq(MediaSegments(resolve.out.result),
                            LAMBDA e : e.txt = <<"media">>)
         requested == CallsOf(resolve.out.calls, "http.file")
     IN /\ [k \in 1..Len(items) |-> items[k].idx] = Downloaded(list, 1)
        /\ [k \in 1..Len(requested) |-> requested[k].arg]
             = [k \in 1..Len(list) |-> k]
        /\ TextSegments(resolve.out.result)
             = TextSegments(processTweet(
                 resolve.tweetUrl, resolve.options,
                 [resolve.env EXCEPT !.api = AllDownloadsOk(@)]).result)

\* C10 (amended): as claimed, except that when nothing was collected (no
\* text part, no screenshot, no item downloaded) the message is the fixed
\* no-content notice, whatever the message with every download succeeding.
C10_FailedDownloadSkipsItemOnly ==
  (Returned /\ resolve.env.api.ok /\ resolve.options.sendMedia
     /\ resolve.env.api.hasMedia) =>
     LET list == resolve.env.api.media_extended
         items == SelectSeq(MediaSegments(resolve.out.result),
                            LAMBDA e : e.txt = <<"media">>)
         requested == CallsOf(resolve.out.calls, "http.file")
         allOk == processTweet(resolve.tweetUrl, resolve.options,
                               [resolve.env EXCEPT !.api = AllDownloadsOk(@)]).result
     IN /\ [k \in 1..Len(items) |-> items[k].idx] = Downloaded(list, 1)
        /\ [k \in 1..Len(requested) |-> requested[k].arg]
             = [k \in 1..Len(list) |-> k]
        /\ IF MediaSegments(resolve.out.result) = <<>>
              /\ TextSegments(allOk) = <<>>
             THEN resolve.out.result = PlainMsg(NoContentNotice)
             ELSE TextSegments(resolve.out.result) = TextSegments(allOk)

\* C10 witness: the first download failed, a later one succeeded and is in
\* the message
C10_Witness ==
  /\ Returned /\ resolve.env.api.ok /\ resolve.options.sendMedia
  /\ resolve.env.api.hasMedia
  /\ Len(resolve.env.api.media_extended) > 1
  /\ resolve.env.api.media_extended[1].dl = "fail"
  /\ \E k \in 1..Len(resolve.out.result.children) :
       /\ resolve.out.result.children[k].txt = <<"media">>
       /\ resolve.out.result.children[k].idx > 1

\* C14: a second call with the same reference and options, against
\* collaborators that answer as in the first, returns a message with the
\* same text segments and the same media segments, in the same order (and
\* makes the same calls): nothing the first call left changes it.
C14_ResolveIsDeterministic ==
  resolve.phase = "returned twice" =>
     /\ TextSegments(resolve.again.result) = TextSegments(resolve.out.result)
     /\ MediaSegments(resolve.again.result) = MediaSegments(resolve.out.result)
     /\ resolve.again.result.form = resolve.out.result.form
     /\ resolve.again.calls = resolve.out.calls

\* C14 witness: the two calls returned a message with the link, a translated
\* text, the screenshot and two downloaded items
C14_Witness ==
  /\ resolve.phase = "returned twice"
  /\ resolve.options.showLink
  /\ CallsOf(resolve.out.calls, "translateText") # <<>>
  /\ resolve.env.trans = "ok"
  /\ Len(MediaSegments(resolve.again.result)) > 2

\* the call collected content: the metadata was fetched and the message is
\* not the no-content notice
HasContent ==
  resolve.env.api.ok /\ resolve.out.result # PlainMsg(NoContentNotice)

\* the message of the same call with other rendering options
Rendered(useForward, platform) ==
  processTweet(resolve.tweetUrl,
               [resolve.options EXCEPT !.useForward = useForward,
                                       !.platform = platform],
               resolve.env).result

\* C15 (as claimed): the message returned is the figure iff useForward is
\* set and the platform is 'onebot', and is the flat rendering otherwise.
C15_AsClaimed ==
  Returned =>
     IF resolve.options.useForward /\ resolve.options.platform = "onebot"
       THEN resolve.out.result.form = "figure"
       ELSE resolve.out.result.form = "flat"

\* C15 (amended): when the call collected content, the message is the
\* figure iff useForward is set and the platform is 'onebot', and otherwise
\* the flat rendering: the joined text, then the media, separated by blank
\* lines; the figure and the flat rendering of the same call have the same
\* text and the same media in the same order.  Without content the message
\* is a plain notice under every rendering option.
C15_FigureIffForwardOnOnebot ==
  Returned =>
     IF HasContent
       THEN LET fig == Rendered(TRUE, "onebot")
                flat == Rendered(FALSE, resolve.options.platform)
            IN /\ resolve.out.result =
                    IF resolve.options.useForward
                       /\ resolve.options.platform = "onebot"
                      THEN fig ELSE flat
               /\ fig.form = "figure" /\ flat.form = "flat"
               /\ flat.children = JoinEls(fig.children, <<"\n\n">>)
               /\ TextSegments(flat) = TextSegments(fig)
               /\ MediaSegments(flat) = MediaSegments(fig)
       ELSE resolve.out.result.form = "plain"

\* C15 witness: useForward on another platform than onebot gave the flat
\* rendering of a text, the screenshot and a downloaded item
C15_Witness ==
  /\ Returned /\ HasContent
  /\ resolve.options.useForward /\ resolve.options.platform = "discord"
  /\ resolve.out.result.form = "flat"
  /\ TextSegments(resolve.out.result) # <<>>
  /\ Len(MediaSegments(resolve.out.result)) > 1

\* the positions of the calls of one collaborator in the sequence of calls
Positions(calls, fn) == {k \in 1..Len(calls) : calls[k].fn = fn}

\* the text parts a call has to return, in the order source link, identity
\* line, body text, translated block
PartsInOrder ==
  LET options == resolve.options
      api == resolve.env.api
      link == IF options.showLink THEN << <<resolve.tweetUrl>> >> ELSE <<>>
      ident == IF api.user_screen_name # ""
                 THEN << <<"UserID: ", api.user_screen_name>> >> ELSE <<>>
      hasBody == options.sendText /\ api.text # ""
      body == IF hasBody THEN << <<"Tweet: ", api.text>> >> ELSE <<>>
      translated == translateText(api.text, options.targetLang,
                                  resolve.env.trans).out
      block == IF hasBody /\ options.enableTranslation
                  /\ options.targetLang # Null /\ translated # Null
                 THEN << <<"\n[Google Translate (", options.targetLang, ")]:\n",
                          translated>> >>
                 ELSE <<>>
  IN link \o ident \o body \o block

\* C24: in one call the screenshot is attempted before the metadata is
\* requested, and translation and downloads are requested only after it;
\* when the metadata fetch fails none of them is requested.  In a message
\* with content the text is the source link, the identity line, the body
\* text and the translated block, in this order, joined by line breaks, and
\* the screenshot, when obtained, is the first media segment, the
\* downloaded items following it.
C24_StepsAndSegmentsInOrder ==
  Returned =>
     LET calls == resolve.out.calls
         result == resolve.out.result
         fetch == Positions(calls, "http.get")
         later == Positions(calls, "translateText") \cup Positions(calls, "http.file")
         media == MediaSegments(result)
         obtained == resolve.options.showScreenshot /\ resolve.env.shot = "ok"
     IN /\ Cardinality(fetch) = 1
        /\ \A k \in Positions(calls, "getTweetScreenshot") :
             \A g \in fetch : k < g
        /\ \A k \in later : \A g \in fetch : g < k
        /\ ~resolve.env.api.ok => later = {}
        /\ HasContent =>
             /\ TextSegments(result)
                  = IF PartsInOrder = <<>> THEN <<>>
                    ELSE <<TextEl(JoinStr(PartsInOrder, <<"\n">>))>>
             /\ \A k \in 1..Len(media) :
                  (media[k] = ScreenshotEl) <=> (obtained /\ k = 1)
             /\ obtained => media # <<>>

\* C24 witness: a message with the link, the identity line, the body and
\* the translated block, the screenshot and two downloaded items
C24_Witness ==
  /\ resolve.phase = "returned"
  /\ Len(PartsInOrder) > 3
  /\ Len(MediaSegments(resolve.out.result)) > 2
  /\ MediaSegments(resolve.out.result)[1] = ScreenshotEl
  /\ resolve.out.result.form = "figure"

\* the message of the same call with translation disabled
Untranslated ==
  processTweet(resolve.tweetUrl,
               [resolve.options EXCEPT !.enableTranslation = FALSE],
               resolve.env).result

\* C25: translation is requested, once, exactly when the metadata was
\* fetched, sendText is set, the body text is not empty, translation is
\* enabled and a target language is set.  When it succeeds, the text of the
\* message is the text without translation followed, after a line break, by
\* the one labelled block (the body text being the last part before it),
\* and the media are the same; when it returns nothing or throws, the
\* message is the message of the same call with translation disabled.
C25_TranslationIsBestEffort ==
  Returned =>
     LET options == resolve.options
         api == resolve.env.api
         requested == CallsOf(resolve.out.calls, "translateText")
         due == /\ api.ok /\ options.sendText /\ api.text # ""
                /\ options.enableTranslation /\ options.targetLang # Null
         result == resolve.out.result
     IN /\ Len(requested) = IF due THEN 1 ELSE 0
        /\ (due /\ resolve.env.trans = "ok") =>
             /\ TextSegments(result) =
                  << TextEl(TextSegments(Untranslated)[1].txt
                             \o <<"\n", "\n[Google Translate (",
                                  options.targetLang, ")]:\n",
                                  api.text \o "@" \o options.targetLang>>) >>
             /\ MediaSegments(result) = MediaSegments(Untranslated)
             /\ result.form = Untranslated.form
        /\ ~(due /\ resolve.env.trans = "ok") => result = Untranslated

\* C25 witness: the translation request threw in a call that returned the
\* body text and media
C25_Witness ==
  /\ resolve.phase = "returned"
  /\ CallsOf(resolve.out.calls, "translateText") # <<>>
  /\ resolve.env.trans = "throw"
  /\ resolve.options.showLink /\ resolve.env.api.user_screen_name # ""
  /\ MediaSegments(resolve.out.result) # <<>>

(***************************************************************************)
(* Properties of the poller.                                               *)
(***************************************************************************)
Account(cs) == subscriptions[cs.i].username
GroupIds(cs) == subscriptions[cs.i].groupIds
WellFormedEntries == {k \in 1..Len(subscriptions) : WellFormed(subscriptions[k])}

\* the invocation has read the record of its current entry
Compared(cs) ==
  /\ cs.pc \in {"resolve", "send", "upsert", "sleep"}
  /\ cs.e.latestTweetUrl # Null
  /\ cs.e.err # "dbget"

\* the record read was absent or differs from the discovered reference
NewAtRead(cs) == cs.e.lastUrl = Null \/ cs.e.lastUrl # cs.e.latestTweetUrl

\* resolve-and-dispatch was started for the current entry
PushStarted(cs) ==
  cs.pc \in {"resolve", "send", "upsert"} \/ (cs.pc = "sleep" /\ cs.e.g > 0)

\* the step writes the record of invocation c's account
Writes(c) == cyc[c].pc = "upsert" /\ cyc'[c].e.wrote

\* C1: a record is written in a cycle only if isNew held for that account in
\* that cycle: every step that changes the table is the upsert of an
\* invocation that read an absent or different record, and writes the
\* discovered reference for its own account; an invocation whose discovered
\* reference equals the recorded one never writes.
C1_WriteOnlyIfNew ==
  [][ /\ \A c \in Cycles : Writes(c) => NewAtRead(cyc[c])
      /\ \A a \in Accounts :
           db'[a] # db[a] =>
             \E c \in Cycles : /\ Writes(c)
                               /\ Account(cyc[c]) = a
                               /\ db'[a] = cyc[c].e.latestTweetUrl ]_vars

\* C1 witness: a forced cycle pushed a post equal to the recorded one to all
\* destinations of the entry and finished the entry with the record as read
C1_Witness ==
  \E c \in Cycles :
    /\ cyc[c].pc = "sleep" /\ cyc[c].forced
    /\ cyc[c].e.lastUrl = cyc[c].e.latestTweetUrl
    /\ cyc[c].e.lastUrl # Null
    /\ cyc[c].e.sent = GroupIds(cyc[c])
    /\ ~cyc[c].e.wrote
    /\ db[Account(cyc[c])] = cyc[c].e.lastUrl

\* C2 (as claimed): when an entry is finished in a cycle in which discovery
\* returned r and the record read was absent or different, the table holds r
\* for that account.
C2_NewIsPersisted ==
  \A c \in Cycles :
    (cyc[c].pc = "sleep" /\ Compared(cyc[c]) /\ NewAtRead(cyc[c]))
      => db[Account(cyc[c])] = cyc[c].e.latestTweetUrl

\* C3: once the record is read, resolve-and-dispatch is started iff the
\* record was absent or different or the cycle is forced; an invocation that
\* did not start it has sent nothing for the entry.
C3_PushIffNewOrForced ==
  \A c \in Cycles :
    /\ Compared(cyc[c]) =>
         (PushStarted(cyc[c]) <=> (NewAtRead(cyc[c]) \/ cyc[c].forced))
    /\ ~PushStarted(cyc[c]) => cyc[c].e.sent = <<>>

\* C3 witness: a forced cycle sent a post equal to the recorded one
C3_Witness ==
  \E c \in Cycles :
    /\ cyc[c].forced /\ Compared(cyc[c]) /\ ~NewAtRead(cyc[c])
    /\ cyc[c].e.sent # <<>>

\* C4 (as claimed): when sendMessage throws for one destination of a pushed
\* entry, every other destination of the entry has the message sent to it
\* by the time the entry is finished.
C4_DispatchIsolated ==
  \A c \in Cycles :
    (cyc[c].pc = "sleep" /\ cyc[c].e.err = "send")
      => \A k \in 1..Len(GroupIds(cyc[c])) :
           k # cyc[c].e.g =>
             \E j \in 1..Len(cyc[c].e.sent) : cyc[c].e.sent[j] = GroupIds(cyc[c])[k]

\* C5 (as claimed): no write replaces the stored reference by another one
\* that was discovered earlier than it.
C5_CursorNeverRegresses ==
  [][ \A c \in Cycles :
        Writes(c) =>
          ~(cyc[c].e.stale /\ db[Account(cyc[c])] # cyc[c].e.latestTweetUrl) ]_vars

\* C6: an exception in one entry (discovery, read, dispatch, write) ends that
\* entry only: the invocation goes on to the sleep, and a cycle that entered
\* the loop returns normally, after visiting every well-formed entry.
C6_FailureDoesNotAbortCycle ==
  \A c \in Cycles :
    /\ cyc[c].pc # "idle" => cyc[c].ret \in {"pending", "undefined", "offline", "summary"}
    /\ (cyc[c].pc # "done" /\ cyc[c].e.err # "none") => cyc[c].pc = "sleep"
    /\ (cyc[c].pc = "done" /\ cyc[c].i > 0) =>
         /\ cyc[c].visited = WellFormedEntries
         /\ cyc[c].ret = IF cyc[c].forced THEN "summary" ELSE "undefined"

\* C6 witness: a cycle returned after an exception in its first entry and
\* the processing of the entries after it
C6_Witness ==
  \E c \in Cycles :
    /\ cyc[c].pc = "done" /\ 1 \in cyc[c].errored
    /\ cyc[c].visited = WellFormedEntries
    /\ Cardinality(cyc[c].visited) > 1

\* C12 (as claimed): the count in the summary a forced cycle returns is the
\* number of entries of the cycle whose message was dispatched (reached at
\* least one destination); a scheduled cycle returns undefined.
C12_SummaryCountsDispatchedEntries ==
  \A c \in Cycles :
    (cyc[c].pc = "done" /\ cyc[c].i > 0) =>
       IF cyc[c].forced
         THEN cyc[c].ret = "summary" /\ cyc[c].updatesFound = cyc[c].delivered
         ELSE cyc[c].ret = "undefined"

Least(S) == CHOOSE k \in S : \A j \in S : k <= j

\* the step is the call of checkAndPushUpdates in slot c
Starts(c) == cyc[c].pc \in {"idle", "done"} /\ cyc'[c] # cyc[c]

\* the invocation is inside the loop over the entries
InLoop(cs) == cs.pc \in {"discover", "dbget", "resolve", "send", "upsert", "sleep"}

\* C13: a cycle started while the bot is missing or offline returns at once:
\* it visits no entry, discovers nothing, does not read or write the table,
\* sends nothing, and returns the descriptive message when forced and
\* undefined when scheduled.  The bot is looked at only there: a cycle
\* inside the loop never returns the offline message and leaves the loop
\* only at its head, after the wait that ends an entry.
C13_OfflineShortCircuits ==
  [][ \A c \in Cycles :
        /\ (Starts(c) /\ ~botOnline) =>
              /\ cyc'[c] = [IdleCycle EXCEPT
                             !.pc = "done", !.forced = (c = "command"),
                             !.ret = IF c = "command" THEN "offline"
                                     ELSE "undefined"]
              /\ db' = db
        /\ (InLoop(cyc[c]) /\ cyc'[c] # cyc[c]) =>
              /\ cyc'[c].ret # "offline"
              /\ cyc'[c].pc = "done" => cyc[c].pc = "sleep" ]_vars

\* C13 witness: a forced cycle returned the offline message without entering
\* the loop, while the other cycle, started when the bot was online, has
\* delivered a message
C13_Witness ==
  /\ ~botOnline
  /\ cyc["command"].pc = "done" /\ cyc["command"].ret = "offline"
  /\ cyc["command"].visited = {}
  /\ InLoop(cyc["timer"]) /\ cyc["timer"].e.sent # <<>>

\* the two invocations are at the same account with the same discovered
\* reference, and each read a record that did not hold it
BothNew ==
  /\ \A c \in Cycles : Compared(cyc[c]) /\ NewAtRead(cyc[c])
  /\ cyc["timer"].i = cyc["command"].i
  /\ cyc["timer"].e.latestTweetUrl = cyc["command"].e.latestTweetUrl

\* C17: nothing keeps a cycle from starting while the other is suspended
\* inside the loop; and when both have read the record of the same account
\* before it held the reference both discovered, both push it: each one
\* that finishes the entry without an exception has sent the message to
\* every destination of the entry.
C17_OverlappingCyclesPushTwice ==
  /\ \A c \in Cycles :
       (cyc[c].pc \in {"idle", "done"} /\ started < MaxCycles)
         => ENABLED StartCycle(c)
  /\ BothNew =>
       \A c \in Cycles :
         /\ PushStarted(cyc[c])
         /\ (cyc[c].pc = "sleep" /\ cyc[c].e.err = "none")
              => cyc[c].e.sent = GroupIds(cyc[c])

\* C17 witness: both cycles found the record of the same account absent,
\* and both have sent the same post to all destinations of the entry
C17_Witness ==
  /\ BothNew
  /\ \A c \in Cycles :
       /\ cyc[c].e.lastUrl = Null
       /\ cyc[c].e.sent = GroupIds(cyc[c])
       /\ cyc[c].e.messageToSend = cyc["timer"].e.messageToSend
       /\ cyc[c].e.wrote

\* the resolution of the current entry failed at the metadata fetch
ResolutionFailed(cs) ==
  /\ cs.pc \in {"send", "upsert", "sleep"}
  /\ cs.e.messageToSend = ApiFailureResult(<<>>, <<>>)

\* C18 (as claimed): when the resolution of an entry's post failed at the
\* metadata fetch, nothing is sent to the entry's destinations and the
\* record of the account is not written by the cycle.
C18_FailedResolutionIsNoPush ==
  \A c \in Cycles :
    ResolutionFailed(cyc[c]) =>
       /\ cyc[c].e.sent = <<>>
       /\ cyc[c].pc # "upsert"
       /\ ~cyc[c].e.wrote

\* the entries without a handle or without a destination
Malformed ==
  {k \in 1..Len(subscriptions) :
     subscriptions[k].username = "" \/ subscriptions[k].groupIds = <<>>}

\* the entries after the j-th that have a handle and a destination
ProperAfter(j) == {k \in (j + 1)..Len(subscriptions) : k \notin Malformed}

\* C19: an entry without a handle or without a destination is never the
\* entry a cycle works on (so nothing is discovered, read, written or sent
\* for it) and is never counted; whenever the loop takes an entry, it is
\* the first entry with a handle and a destination after the one before,
\* and the loop ends when there is none: the entries in between change
\* nothing.
C19_MalformedEntriesSkipped ==
  [][ \A c \in Cycles :
        /\ InLoop(cyc'[c]) => cyc'[c].i \notin Malformed
        /\ cyc'[c].visited \cap Malformed = {}
        /\ cyc'[c].updatesFound <= Cardinality(cyc'[c].visited \ Malformed)
        /\ (cyc'[c].i # cyc[c].i /\ cyc'[c].i > 0) =>
              LET j == IF Starts(c) THEN 0 ELSE cyc[c].i
              IN /\ db' = db
                 /\ IF ProperAfter(j) = {}
                      THEN cyc'[c].pc = "done"
                      ELSE /\ cyc'[c].pc = "discover"
                           /\ cyc'[c].i = Least(ProperAfter(j))
                           /\ cyc'[c].updatesFound
                                = IF Starts(c) THEN 0 ELSE cyc[c].updatesFound ]_vars

\* C19 witness: a cycle pushed for the entries before and after the entry
\* without a handle and returned after the entry without a destination
C19_Witness ==
  \E c \in Cycles :
    /\ cyc[c].pc = "done" /\ cyc[c].i > Len(subscriptions)
    /\ cyc[c].visited = {k \in 1..Len(subscriptions) : k \notin Malformed}
    /\ Cardinality(Malformed) > 1
    /\ cyc[c].delivered = Cardinality(cyc[c].visited)

\* discovery has returned null for the current entry
NothingFound(cs) ==
  cs.pc # "discover" /\ InLoop(cs) /\ cs.e.latestTweetUrl = Null
    /\ cs.e.err = "none"

\* C20: when discovery returns null, in a forced or a scheduled cycle, the
\* entry ends there: the step changes nothing but the position of the
\* cycle, which waits and then takes the next entry; the table is not read
\* or written for the entry, nothing is sent, the count stays as it was.
C20_NothingFoundSkipsEntry ==
  [][ \A c \in Cycles :
        /\ (cyc[c].pc = "discover" /\ NothingFound(cyc'[c])) =>
              /\ cyc'[c] = [cyc[c] EXCEPT !.pc = "sleep"]
              /\ db' = db
        /\ (NothingFound(cyc[c]) /\ cyc'[c] # cyc[c]) =>
              /\ cyc[c].e = EntryLocals
              /\ db' = db
              /\ cyc'[c].updatesFound = cyc[c].updatesFound
              /\ cyc'[c].delivered = cyc[c].delivered
              /\ IF ProperAfter(cyc[c].i) = {}
                   THEN cyc'[c].pc = "done"
                   ELSE /\ cyc'[c].pc = "discover"
                        /\ cyc'[c].i = Least(ProperAfter(cyc[c].i)) ]_vars

\* C20 witness: a forced cycle found nothing for the first entry, whose
\* record exists, left it and pushed for a later entry
C20_Witness ==
  /\ cyc["command"].pc = "sleep" /\ cyc["command"].i > 1
  /\ cyc["command"].visited = {k \in 1..cyc["command"].i : k \notin Malformed}
  /\ cyc["command"].updatesFound = 1 /\ cyc["command"].delivered = 1
  /\ cyc["command"].e.sent # <<>>
  /\ cyc["command"].errored = {}
  /\ db["alice"] # Null

\* every step of the current entry has completed or failed
EntryOver(cs) ==
  /\ cs.pc = "sleep"
  /\ \/ cs.e.err # "none"
     \/ cs.e.latestTweetUrl = Null
     \/ ~NewAtRead(cs) /\ ~cs.forced /\ cs.e.sent = <<>>
     \/ /\ cs.e.sent = subscriptions[cs.i].groupIds
        /\ NewAtRead(cs) => cs.e.wrote

\* C21: a cycle works on one entry at a time, in the order of the list: its
\* position only grows, it changes only when every step of the entry before
\* has completed or failed, discovery is the first step of the entry taken,
\* and the destinations served so far are an initial part of the entry's
\* list, in its order.
C21_EntriesInOrderOneAtATime ==
  [][ \A c \in Cycles :
        /\ (cyc'[c].i # cyc[c].i /\ ~Starts(c)) =>
              /\ cyc'[c].i > cyc[c].i
              /\ EntryOver(cyc[c])
        /\ (cyc'[c].pc = "discover" /\ cyc'[c] # cyc[c]) =>
              cyc'[c].i # cyc[c].i \/ Starts(c)
        /\ InLoop(cyc'[c]) =>
              LET sent == cyc'[c].e.sent
                  list == subscriptions[cyc'[c].i].groupIds
              IN /\ Len(sent) <= Len(list)
                 /\ sent = [k \in 1..Len(sent) |-> list[k]] ]_vars

\* C21 witness: a cycle finished its first entry, served in order at both
\* destinations and recorded, and is at a later entry with a message sent
C21_Witness ==
  \E c \in Cycles :
    /\ cyc[c].i > 1 /\ cyc[c].e.sent # <<>>
    /\ cyc[c].updatesFound > 1 /\ cyc[c].delivered > 1
    /\ cyc[c].errored = {}
    /\ Len(subscriptions[1].groupIds) > 1

\* the invocation is at a call made for its current entry
AtWork(cs) == cs.pc \in {"discover", "dbget", "resolve", "send", "upsert"}

\* C22: whatever the outcome of an entry whose discovery was called (pushed,
\* nothing new, no post, an exception), the cycle leaves the work on the
\* entry for the wait only, and discovery of an entry other than the first
\* one visited is called only from the end of a wait: between two calls of
\* discovery in one cycle there is a wait.
C22_DelayAfterEveryEntry ==
  [][ \A c \in Cycles :
        /\ (AtWork(cyc[c]) /\ ~AtWork(cyc'[c])) => cyc'[c].pc = "sleep"
        /\ (AtWork(cyc[c]) /\ AtWork(cyc'[c])) => cyc'[c].i = cyc[c].i
        /\ (cyc'[c].pc = "discover" /\ cyc'[c] # cyc[c] /\ ~Starts(c))
              => cyc[c].pc = "sleep" ]_vars

\* C22 witness: a cycle is in the wait after an entry for which discovery
\* found no post, having waited after an entry that failed
C22_Witness ==
  \E c \in Cycles :
    /\ NothingFound(cyc[c]) /\ cyc[c].pc = "sleep"
    /\ cyc[c].i > 1 /\ 1 \in cyc[c].errored

\* C23: when every call returns or throws in the end, a cycle that entered
\* the loop returns in the end, having visited every entry with a handle
\* and a destination; and it calls discovery for an entry only once: the
\* entry whose discovery is called was not visited before in the cycle.
C23_EveryCycleTerminates ==
  /\ [][ \A c \in Cycles :
            (cyc'[c].pc = "discover" /\ cyc'[c] # cyc[c]) =>
               LET before == IF Starts(c) THEN {} ELSE cyc[c].visited
               IN /\ cyc'[c].i \notin before
                  /\ cyc'[c].visited = before \cup {cyc'[c].i} ]_vars
  /\ \A c \in Cycles :
       InLoop(cyc[c]) ~> /\ cyc[c].pc = "done"
                         /\ cyc[c].ret \in {"summary", "undefined"}
                         /\ cyc[c].visited = ProperAfter(0)

\* C23 witness: a scheduled cycle returned after pushing for every entry it
\* had to visit, without an exception
C23_Witness ==
  /\ cyc["timer"].pc = "done" /\ cyc["timer"].ret = "undefined"
  /\ cyc["timer"].visited = ProperAfter(0)
  /\ cyc["timer"].delivered = Cardinality(ProperAfter(0))
  /\ cyc["timer"].errored = {}

\* C27: an invocation writes the record of an account only when sendMessage
\* has returned for every destination of the entry; the step in which
\* sendMessage throws leaves the table as it is and the invocation does not
\* write for that entry afterwards; and every push starts at the first
\* destination of the entry, whatever was delivered before, so a cycle that
\* finds the record still different pushes to all destinations again.
C27_WriteOnlyAfterFullDispatch ==
  [][ \A c \in Cycles :
        /\ cyc'[c].pc = "upsert" =>
              /\ cyc'[c].e.sent = subscriptions[cyc'[c].i].groupIds
              /\ cyc'[c].e.err = "none"
        /\ Writes(c) => cyc[c].e.sent = subscriptions[cyc[c].i].groupIds
        /\ (cyc[c].pc = "send" /\ cyc'[c].e.err = "send") =>
              /\ db' = db
              /\ cyc'[c].pc = "sleep" /\ ~cyc'[c].e.wrote
        /\ (cyc[c].pc = "resolve" /\ cyc'[c].pc = "send") =>
              cyc'[c].e.sent = <<>> /\ cyc'[c].e.g = 1 ]_vars

\* C27 witness: the forced cycle failed at the second destination of an
\* entry without a record, which is still absent, and the scheduled cycle,
\* with the same reference, has sent to both destinations of the entry
C27_Witness ==
  /\ cyc["command"].pc = "sleep" /\ cyc["command"].e.err = "send"
  /\ Len(cyc["command"].e.sent) = 1
  /\ cyc["timer"].i = cyc["command"].i
  /\ cyc["timer"].e.latestTweetUrl = cyc["command"].e.latestTweetUrl
  /\ cyc["timer"].e.lastUrl = Null
  /\ cyc["timer"].e.sent = subscriptions[cyc["timer"].i].groupIds
  /\ cyc["timer"].pc = "upsert"
  /\ db[subscriptions[cyc["timer"].i].username] = Null

(***************************************************************************)
(* Properties of getLatestTweetUrlByPuppeteer.                             *)
(***************************************************************************)
DiscoveryReturned == discovery.phase = "ended" /\ ~discovery.out.threw

\* the article's socialContext says it is pinned, or a repost
Pinned(article) ==
  article.hasContext /\ Includes(article.contextText, "Pinned")
Repost(article) ==
  /\ article.hasContext
  /\ \E marker \in {"Retweeted", "reposted", "zhuantui"} :
       Includes(article.contextText, marker)

\* the positions of the posts that pass the filters
Qualifying(articles, excludeRetweets) ==
  {k \in 1..Len(articles) :
     ~Pinned(articles[k]) /\ (excludeRetweets => ~Repost(articles[k]))}

\* C11 (as claimed): on a page that loads, the call returns the link of the first post that is not
\* pinned and, with excludeRetweets, not a repost, and returns null when no
\* post qualifies.
C11_AsClaimed ==
  (discovery.phase = "ended" /\ discovery.page.loads) =>
     LET articles == discovery.page.articles
         Q == Qualifying(articles, discovery.excludeRetweets)
     IN /\ ~discovery.out.threw
        /\ discovery.out.latestTweetUrl
             = IF Q = {} THEN 0 ELSE articles[Least(Q)].href

\* C11 (amended): on a page that loads and shows at least one article, the
\* call returns the link of the first article that is not pinned, is not a
\* repost when excludeRetweets is set, and has a status link; it returns
\* null when there is no such article.  A pinned article is never the
\* result, and a repost is never the result under excludeRetweets.
C11_FirstQualifyingLinkedPost ==
  (discovery.phase = "ended" /\ discovery.page.loads
     /\ Len(discovery.page.articles) > 0) =>
     LET articles == discovery.page.articles
         Q == {k \in Qualifying(articles, discovery.excludeRetweets) :
                 articles[k].href # 0}
         r == discovery.out.latestTweetUrl
     IN /\ ~discovery.out.threw
        /\ r = IF Q = {} THEN 0 ELSE articles[Least(Q)].href
        /\ r # 0 => /\ ~Pinned(articles[r])
                    /\ discovery.excludeRetweets => ~Repost(articles[r])

\* C11 witness: without excludeRetweets, a repost is returned that comes
\* after a pinned article and before an article that is neither
C11_Witness ==
  /\ DiscoveryReturned /\ ~discovery.excludeRetweets
  /\ Len(discovery.page.articles) > 2
  /\ Pinned(discovery.page.articles[1])
  /\ Repost(discovery.page.articles[2])
  /\ ~discovery.page.articles[3].hasContext
  /\ discovery.page.articles[3].href # 0
  /\ discovery.out.latestTweetUrl = 2

(***************************************************************************)
(* Properties of the middleware.                                           *)
(***************************************************************************)
\* the positions of the status links of the two hosts in the content
LinkPositions(content) ==
  {k \in 1..Len(content) : MatchesTweetUrl(content[k])}

\* the run of the middleware is over
MwAtRest == mw.pc \in {"next", "done", "threw"}

\* C16 (as claimed): a message without a status link is handed to next() and
\* nothing is sent; a message with one makes the middleware send the
\* placeholder, then the message resolved for the first link, then delete
\* the placeholder; and when the run is over, on whatever path, a
\* placeholder that was sent has been deleted.
C16_PlaceholderThenResultThenDelete ==
  MwAtRest =>
     LET links == LinkPositions(mw.content)
     IN /\ links = {} =>
             mw.pc = "next" /\ mw.trace = <<[ev |-> "next", of |-> Null]>>
        /\ links # {} => mw.pc # "next"
        /\ mw.pc = "done" =>
             mw.trace = << [ev |-> "placeholder", of |-> Null],
                           [ev |-> "message", of |-> mw.content[Least(links)]],
                           [ev |-> "delete", of |-> Null] >>
        /\ mw.placeholder # "shown"

(***************************************************************************)
(* Properties of createLogStepper.                                         *)
(***************************************************************************)
\* the numbers on the lines of instance id, in the order of the log
NumbersOf(id) ==
  LET own == SelectSeq(stepper.lines, LAMBDA line : line.id = id)
  IN [k \in 1..Len(own) |-> own[k].step]

\* C26: the lines of every instance carry the numbers 1, 2, 3, ... in the
\* order they were written, whatever the calls of other instances between
\* them, and the variable of the instance is the next number; a call
\* changes the variable of no other instance; without config.logDetails no
\* line is written.
C26_StepperCountsPerInstance ==
  [][ /\ \A id \in 1..stepper'.made :
           /\ NumbersOf(id)' = [k \in 1..Len(NumbersOf(id)') |-> k]
           /\ stepper'.step[id] = Len(NumbersOf(id)') + 1
      /\ \A id \in 1..stepper.made :
           stepper'.step[id] # stepper.step[id] =>
             /\ Len(stepper'.lines) = Len(stepper.lines) + 1
             /\ stepper'.lines[Len(stepper'.lines)].id = id
      /\ ~stepper'.logDetails => stepper'.lines = <<>> ]_vars

\* C26 witness: two instances wrote two lines each, the lines of the second
\* between the lines of the first
C26_Witness ==
  /\ Len(stepper.lines) > 3
  /\ stepper.lines[1].id = 1 /\ stepper.lines[2].id = 2
  /\ stepper.lines[3].id = 2 /\ stepper.lines[4].id = 1
  /\ stepper.lines[4].step = 2

(***************************************************************************)
(* Properties of the single-account test command.                          *)
(***************************************************************************)
\* C28: no step of the test command changes a record of the table, whatever
\* the table holds and however the run ends, and every message of the run
\* is sent to the invoking session and nowhere else.
C28_TestLeavesRecordsAlone ==
  [][ /\ db' = db
      /\ \A k \in 1..Len(test'.sent) :
           /\ test'.sent[k].channel = test'.session.channel
           /\ test'.sent[k].platform = test'.session.platform ]_vars

\* C28 witness: a test of a subscribed account has sent its message from a
\* session outside the destinations of the entry, and the record of the
\* account differs from the reference just shown
C28_Witness ==
  /\ test.pc = "returned" /\ test.ret = "sent"
  /\ Len(test.sent) = 3
  /\ test.username \in Accounts
  /\ test.session.channel = "private"
  /\ db[test.username] # test.latestTweetUrl

(***************************************************************************)
(* Properties of the browser pages.                                        *)
(***************************************************************************)
\* C29: a call holds an open page exactly while it is inside its try or its
\* finally; once it has returned or thrown its page is closed, so with no
\* call in flight no page is open.
C29_PagesClosedOnEveryPath ==
  /\ \A k \in Callers :
       k \in pages.open <=> pages.call[k].pc \in {"try", "finally"}
  /\ (\A k \in Callers : Settled(pages.call[k])) => Cardinality(pages.open) = 0

\* C29 witness: one call has thrown after a timeout inside its try, the
\* other has returned, and no page is open
C29_Witness ==
  /\ pages.call["first"].pc = "threw"
  /\ pages.call["first"].failure = "timeout"
  /\ pages.call["second"].pc = "returned"
  /\ pages.open = {}

====
